---- MODULE Spec2Model ----
(***************************************************************************)
(* Model of sitegenerator/fileshandling.py: the importing copier           *)
(* (import_and_copy_file, _copycontent_withimports_tag), the token         *)
(* substituter (replace_variables, _replace_line_content,                  *)
(* _replace_from_map), the link normalizer (reformat_links) and the link   *)
(* prepender (prepend_external_link).                                      *)
(*                                                                         *)
(* A line of text is a sequence of one-character strings; the importing    *)
(* copier works on lines that are sequences of tokens, the directive       *)
(* marker "##IMPORT " being one token.                                     *)
(***************************************************************************)
EXTENDS Integers, Sequences, FiniteSets, TLC

VARIABLES
    fs,          \* the file system: path -> node (a file, a symlink, or missing)
    dest,        \* content of destination_path, a sequence of lines
    stack,       \* the activations of _copycontent_withimports_tag, innermost last
    ipc,         \* position of import_and_copy_file: ready, running, returned, raised
    iret,        \* the value import_and_copy_file returned
    ilog,        \* what happened during the call: [missing, fallback, depth]
    doc,         \* content of the file at `path`, a sequence of lines
    doc0,        \* the content of the file before the first call
    doc1,        \* the content of the file after the first completed call
    env,         \* the arguments of the call other than path
    src_i,       \* index of the next line that `for line in source_f` yields
    out,         \* lines written to dest_f (the temporary file)
    ok,          \* the local `success` of replace_variables
    pc,          \* position of the in-place operation: ready, loop, done
    calls,       \* number of completed calls of the in-place operation
    line_count   \* the local `line_count` of prepend_external_link

vars == <<fs, dest, stack, ipc, iret, ilog,
          doc, doc0, doc1, env, src_i, out, ok, pc, calls, line_count>>

importVars == <<fs, dest, stack, ipc, iret, ilog>>
inplaceVars == <<doc, doc0, doc1, env, src_i, out, ok, pc, calls, line_count>>

\* ------------------------------------------------------------------------
\* Bounds of the model
\* ------------------------------------------------------------------------

\* most lines the files of the import tree hold together
MaxTotalLines == 4

\* most lines the files of a small import tree hold together
MaxSmallTreeLines == 3

\* activations the interpreter allows before it aborts the recursion
\* (RecursionError, or EMFILE from the file handle each activation holds)
RecursionLimit == 4

\* ------------------------------------------------------------------------
\* Generic helpers on sequences
\* ------------------------------------------------------------------------

RECURSIVE Flatten(_)
Flatten(ss) == IF ss = <<>> THEN <<>> ELSE Head(ss) \o Flatten(Tail(ss))

\* s[i..] (empty when i > Len(s))
From(s, i) == SubSeq(s, i, Len(s))

\* does t occur in s at position i
OccursAt(s, t, i) == /\ i + Len(t) - 1 <= Len(s)
                     /\ SubSeq(s, i, i + Len(t) - 1) = t

\* ------------------------------------------------------------------------
\* The importing copier
\* ------------------------------------------------------------------------

\* A path is a directory and a file name. Every path names a regular file, a
\* symlink to one, or nothing; the destination is a path outside the tree.
P(d, n) == [dir |-> d, name |-> n]

Paths == {P("p", "a"), P("p", "b"), P("q", "a"), P("q", "b")}

\* the source_path argument
SourcePath == P("p", "a")

Missing == [kind |-> "missing"]
File(ls) == [kind |-> "file", lines |-> ls]
Link(to) == [kind |-> "link", to |-> to]

IMPORT == "##IMPORT "
BAD == "\\xff"

\* the text lines of each file, distinct so that order and origin show
TextOf(p, i) == <<p.dir, "/", p.name, ":", ToString(i), "\n">>

\* the lines a file of the model is made of
LineKinds == {"text", "import_a", "import_b", "import_qb", "bad"}

LineOf(p, i, k) ==
    CASE k = "text"      -> TextOf(p, i)
      [] k = "import_a"  -> <<"see ", IMPORT, "a">>
      [] k = "import_b"  -> <<IMPORT, "b">>
      [] k = "import_qb" -> <<IMPORT, "../q/", "b">>
      [] k = "bad"       -> <<BAD>>

FileOf(p, ks) == File([i \in 1..Len(ks) |-> LineOf(p, i, ks[i])])

\* the files of n lines at path p
Contents(p, n) == {FileOf(p, ks) : ks \in [1..n -> LineKinds]}

\* os.path.realpath: symlinks resolved
realpath(f, p) == IF f[p].kind = "link" THEN f[p].to ELSE p

\* open(path) succeeds: the path, symlinks followed, names a file
Exists(f, p) == f[realpath(f, p)].kind = "file"

\* the lines `for line in f` yields
Lines(f, p) == f[realpath(f, p)].lines

\* a line that cannot be decoded as text
Undecodable(line) == \E i \in 1..Len(line) : line[i] = BAD

\* import_re.findall(line): "##IMPORT (.*)" matches at the first marker and
\* the group runs to the end of the line, so there is at most one match
import_re_findall(line) ==
    LET at == {i \in 1..Len(line) : line[i] = IMPORT}
    IN  IF at = {} THEN <<>>
        ELSE <<From(line, (CHOOSE i \in at : \A j \in at : i <= j) + 1)>>

\* os.path.join(directory, rel_path) as a path of the model
join(d, rel) ==
    CASE Len(rel) = 1 /\ rel[1] \in {"a", "b"} -> P(d, rel[1])
      [] Len(rel) = 2 /\ rel[1] = "../q/" /\ rel[2] \in {"a", "b"} -> P("q", rel[2])
      [] Len(rel) = 2 /\ rel[1] = "../p/" /\ rel[2] \in {"a", "b"} -> P("p", rel[2])
      [] OTHER -> P("p", "none")

\* variant: imports resolved against the directory of the top-level source
ImportPathFromTop(f, name, rel) == join(realpath(f, SourcePath).dir, rel)

\* os.path.join(os.path.dirname(os.path.realpath(source_f.name)), rel_path)
ImportPath(f, name, rel) == join(realpath(f, name).dir, rel)

\* variant: an import of a file that is already being imported is skipped
OpensGuarded(f, stk, target) ==
    /\ target \in Paths
    /\ Exists(f, target)
    /\ \A i \in 1..Len(stk) : stk[i].name # target

\* open() of line 74 succeeds
Opens(f, stk, target) == target \in Paths /\ Exists(f, target)

Frame(name) == [name |-> name, idx |-> 1, success |-> TRUE]

Top == stack[Len(stack)]
TopLines == Lines(fs, Top.name)
TopLine == TopLines[Top.idx]
AtLine == ipc = "running" /\ Top.idx <= Len(TopLines)

SetTop(stk, fr) == [stk EXCEPT ![Len(stk)] = fr]
Advance(fr) == [fr EXCEPT !.idx = @ + 1]

\* lines 49-53: destination opened for writing, source opened
CallOpens ==
    /\ ipc = "ready"
    /\ Exists(fs, SourcePath)
    /\ dest' = <<>>
    /\ stack' = <<Frame(SourcePath)>>
    /\ ipc' = "running"
    /\ ilog' = [ilog EXCEPT !.depth = 1]
    /\ UNCHANGED <<fs, iret, inplaceVars>>

\* lines 52, 58-61: the source cannot be opened
CallSourceNotFound ==
    /\ ipc = "ready"
    /\ ~Exists(fs, SourcePath)
    /\ dest' = <<>>
    /\ iret' = FALSE
    /\ ipc' = "returned"
    /\ UNCHANGED <<fs, stack, ilog, inplaceVars>>

\* lines 69-71, 80-81: a line without directive is written
CopyLine ==
    /\ AtLine
    /\ ~Undecodable(TopLine)
    /\ import_re_findall(TopLine) = <<>>
    /\ dest' = dest \o <<TopLine>>
    /\ stack' = SetTop(stack, Advance(Top))
    /\ UNCHANGED <<fs, ipc, iret, ilog, inplaceVars>>

\* lines 71-75: the imported file is opened and copied by a nested activation
ImportOpens ==
    /\ AtLine
    /\ ~Undecodable(TopLine)
    /\ import_re_findall(TopLine) # <<>>
    /\ LET target == ImportPath(fs, Top.name, import_re_findall(TopLine)[1])
       IN  /\ Opens(fs, stack, target)
           /\ Len(stack) < RecursionLimit
           /\ stack' = stack \o <<Frame(target)>>
           /\ ilog' = [ilog EXCEPT !.depth = IF Len(stack') > @ THEN Len(stack') ELSE @]
    /\ UNCHANGED <<fs, dest, ipc, iret, inplaceVars>>

\* lines 74, 77-79: the imported file cannot be opened
ImportNotFound ==
    /\ AtLine
    /\ ~Undecodable(TopLine)
    /\ import_re_findall(TopLine) # <<>>
    /\ LET target == ImportPath(fs, Top.name, import_re_findall(TopLine)[1])
       IN  ~Opens(fs, stack, target)
    /\ stack' = SetTop(stack, Advance([Top EXCEPT !.success = FALSE]))
    /\ ilog' = [ilog EXCEPT !.missing = TRUE]
    /\ UNCHANGED <<fs, dest, ipc, iret, inplaceVars>>

\* line 82 of a nested activation, then lines 75-76 of its caller
ReturnNested ==
    /\ ipc = "running"
    /\ Top.idx > Len(TopLines)
    /\ Len(stack) > 1
    /\ LET caller == stack[Len(stack) - 1]
           callee == Top
       IN  stack' = SetTop(SubSeq(stack, 1, Len(stack) - 1),
                           Advance([caller EXCEPT !.success = @ /\ callee.success]))
    /\ UNCHANGED <<fs, dest, ipc, iret, ilog, inplaceVars>>

\* line 82 of the outermost activation, then lines 53 and 61
ReturnTop ==
    /\ ipc = "running"
    /\ Top.idx > Len(TopLines)
    /\ Len(stack) = 1
    /\ iret' = Top.success
    /\ stack' = <<>>
    /\ ipc' = "returned"
    /\ UNCHANGED <<fs, dest, ilog, inplaceVars>>

\* lines 54-57, 61: a UnicodeDecodeError raised while iterating any file of the
\* tree leaves every activation (line 77 catches FileNotFoundError only); the
\* source is copied byte for byte and `success` still holds line 49's value
DecodeFallback ==
    /\ AtLine
    /\ Undecodable(TopLine)
    /\ dest' = Lines(fs, SourcePath)
    /\ stack' = <<>>
    /\ ipc' = "returned"
    /\ ilog' = [ilog EXCEPT !.fallback = TRUE]
    /\ UNCHANGED <<fs, iret, inplaceVars>>

\* line 75 when the interpreter allows no further activation: the error is
\* neither UnicodeDecodeError nor FileNotFoundError and leaves the call
RecursionOverflow ==
    /\ AtLine
    /\ ~Undecodable(TopLine)
    /\ import_re_findall(TopLine) # <<>>
    /\ Opens(fs, stack, ImportPath(fs, Top.name, import_re_findall(TopLine)[1]))
    /\ Len(stack) >= RecursionLimit
    /\ stack' = <<>>
    /\ ipc' = "raised"
    /\ UNCHANGED <<fs, dest, iret, ilog, inplaceVars>>

\* ------------------------------------------------------------------------
\* The import graph, as the specification describes it
\* ------------------------------------------------------------------------

HasDirective(line) == \E i \in 1..Len(line) : line[i] = IMPORT

\* the path a directive names: the tokens after the marker, relative to the
\* directory of the file that contains the directive
Named(f, p, line) ==
    LET i == CHOOSE k \in 1..Len(line) :
                 line[k] = IMPORT /\ \A j \in 1..(k - 1) : line[j] # IMPORT
    IN  join(realpath(f, p).dir, From(line, i + 1))

IsFile(f, p) == p \in Paths /\ Exists(f, p)

\* the existing files that the file at p imports
Imports(f, p) ==
    IF ~IsFile(f, p) THEN {}
    ELSE {q \in Paths : /\ IsFile(f, q)
                        /\ \E i \in 1..Len(Lines(f, p)) :
                              /\ HasDirective(Lines(f, p)[i])
                              /\ Named(f, p, Lines(f, p)[i]) = q}

\* the import graph: each path with the existing files it imports
EdgesOf(f) == [p \in Paths |-> Imports(f, p)]

\* the paths reachable from those of S along the edges E
RECURSIVE Closure(_, _)
Closure(E, S) ==
    LET T == S \cup UNION {E[p] : p \in S}
    IN  IF T = S THEN S ELSE Closure(E, T)

\* the files of the import tree of the top-level source
Reachable(f) ==
    IF IsFile(f, SourcePath) THEN Closure(EdgesOf(f), {SourcePath}) ELSE {}

\* a cycle of existing files is reachable from the top-level source
CycleReachable(f) ==
    LET E == EdgesOf(f)
    IN  \E p \in Reachable(f) : E[p] # {} /\ p \in Closure(E, E[p])

\* every file of the import tree is decodable text
TreeDecodable(f) ==
    \A p \in Reachable(f) : \A i \in 1..Len(Lines(f, p)) : ~Undecodable(Lines(f, p)[i])

Max(S) == CHOOSE x \in S : \A y \in S : y <= x

\* number of files on the longest import chain that starts at p (acyclic graphs)
RECURSIVE LongestChain(_, _)
LongestChain(f, p) ==
    IF ~IsFile(f, p) THEN 0
    ELSE 1 + Max({0} \cup {LongestChain(f, q) : q \in Imports(f, p)})

\* the recursive expansion of the file at p; n bounds the nesting
RECURSIVE Expansion(_, _, _)
Expansion(f, p, n) ==
    IF n = 0 \/ ~IsFile(f, p) THEN <<>>
    ELSE Flatten([i \in 1..Len(Lines(f, p)) |->
                    IF HasDirective(Lines(f, p)[i])
                    THEN Expansion(f, Named(f, p, Lines(f, p)[i]), n - 1)
                    ELSE <<Lines(f, p)[i]>>])

\* the state before the call, over the trees of at most n lines
InitTree(n) ==
    /\ \E la \in 0..n :
       \E lb \in 0..(n - la) :
       \E lc \in 0..(n - la - lb) :
       \E a \in Contents(P("p", "a"), la) \cup (IF la = 0 THEN {Missing} ELSE {}),
          b \in Contents(P("p", "b"), lb)
                  \cup (IF lb = 0 THEN {Missing, Link(P("q", "b"))} ELSE {}),
          c \in Contents(P("q", "b"), lc) \cup (IF lc = 0 THEN {Missing} ELSE {}) :
          fs = [p \in Paths |-> CASE p = P("p", "a") -> a
                                  [] p = P("p", "b") -> b
                                  [] p = P("q", "b") -> c
                                  [] OTHER -> Missing]
    /\ dest = <<>>
    /\ stack = <<>>
    /\ ipc = "ready"
    /\ iret = TRUE
    /\ ilog = [missing |-> FALSE, fallback |-> FALSE, depth |-> 0]
    /\ doc = <<>> /\ doc0 = <<>> /\ doc1 = <<>> /\ env = <<>>
    /\ src_i = 0 /\ out = <<>> /\ ok = TRUE /\ pc = "idle" /\ calls = 0
    /\ line_count = 0

InitImport == InitTree(MaxTotalLines)

NextImport ==
    \/ CallOpens
    \/ CallSourceNotFound
    \/ CopyLine
    \/ ImportOpens
    \/ ImportNotFound
    \/ ReturnNested
    \/ ReturnTop
    \/ DecodeFallback
    \/ RecursionOverflow

SpecImport == InitImport /\ [][NextImport]_vars

\* the same call over the smaller trees on which the facts about the whole
\* import graph are evaluated in every state
InitSmallTree == InitTree(MaxSmallTreeLines)

SpecSmallTree == InitSmallTree /\ [][NextImport]_vars

\* ------------------------------------------------------------------------
\* Claims about the importing copier
\* ------------------------------------------------------------------------

\* C1: whenever import_and_copy_file returns a value and an import directive
\* met during the call named a file that could not be opened, the value
\* returned is false.
C1_FailedImportReturnsFalse ==
    (ipc = "returned" /\ ilog.missing) => iret = FALSE

\* C2: for every acyclic tree of decodable text files, the destination
\* written equals the recursive expansion of the source: plain lines verbatim
\* and in order, each directive line replaced by the expansion of the file it
\* names relative to the directory of the file containing it, a directive
\* naming a missing file contributing nothing.
C2_DestinationIsExpansion ==
    (ipc = "returned" /\ IsFile(fs, SourcePath) /\ TreeDecodable(fs))
        => dest = Expansion(fs, SourcePath, Cardinality(Paths))

\* C2 witness: a returned call whose tree is three files deep, held a
\* directive naming a missing file and wrote lines of nested files.
C2_Witness ==
    /\ ipc = "returned"
    /\ TreeDecodable(fs)
    /\ ilog.depth = 3
    /\ ilog.missing
    /\ fs[P("p", "b")].kind = "file"
    /\ Len(dest) >= 1

\* C10 as stated: the call returns exactly when no cycle of existing files
\* is reachable from the top-level source.
C10_ReturnsIffAcyclic ==
    /\ ipc = "returned" => ~CycleReachable(fs)
    /\ ipc = "raised" => CycleReachable(fs)

\* steps the call still takes on an acyclic import graph: one per line,
\* one per return, and the steps of every file a directive opens
RECURSIVE StepsOfFile(_, _)
RECURSIVE StepsOfLines(_, _, _)
StepsOfLines(f, p, i) ==
    IF i > Len(Lines(f, p)) THEN 0
    ELSE LET line == Lines(f, p)[i]
         IN  1 + (IF HasDirective(line) /\ IsFile(f, Named(f, p, line))
                  THEN StepsOfFile(f, Named(f, p, line)) ELSE 0)
               + StepsOfLines(f, p, i + 1)
StepsOfFile(f, p) == 1 + StepsOfLines(f, p, 1)

RECURSIVE StepsOfStack(_, _, _)
StepsOfStack(f, stk, k) ==
    IF k > Len(stk) THEN 0
    ELSE 1 + StepsOfLines(f, stk[k].name,
                          IF k = Len(stk) THEN stk[k].idx ELSE stk[k].idx + 1)
           + StepsOfStack(f, stk, k + 1)

Remaining(f, stk, at) ==
    CASE at = "ready" -> 1 + (IF IsFile(f, SourcePath) THEN StepsOfFile(f, SourcePath) ELSE 0)
      [] at = "running" -> StepsOfStack(f, stk, 1)
      [] OTHER -> 0

\* C10 amended, the state part: when every file of the import tree is
\* decodable text, the call returns only if no cycle of existing files is
\* reachable; on an acyclic graph the recursion never exceeds the longest
\* import chain and the call is never aborted; the call is aborted only when
\* a cycle is reachable, at the deepest nesting the interpreter allows; and a
\* call that has neither returned nor been aborted can always take a step.
C10_Safety ==
    /\ (ipc = "returned" /\ TreeDecodable(fs)) => ~CycleReachable(fs)
    /\ ~CycleReachable(fs) =>
          /\ ipc # "raised"
          /\ Len(stack) <= LongestChain(fs, SourcePath)
          /\ ilog.depth <= LongestChain(fs, SourcePath)
    /\ ipc = "raised" => (CycleReachable(fs) /\ ilog.depth = RecursionLimit)
    /\ ipc \in {"ready", "running"} => ENABLED NextImport

\* C10 amended, the step part: on an acyclic graph every step of the call
\* lowers the number of steps that remain, so the call ends.
C10_Progress ==
    ~CycleReachable(fs) =>
        /\ Remaining(fs', stack', ipc') < Remaining(fs, stack, ipc)
        /\ Remaining(fs', stack', ipc') >= 0

\* C10 amended: on import trees whose files are all decodable text,
\* import_and_copy_file returns exactly when no cycle of existing files is
\* reachable from the top-level source. On every acyclic graph (missing
\* files and repeated imports included) it ends, with depth bounded by the
\* longest import chain; with a reachable cycle and decodable files it never
\* returns and the depth grows until the interpreter aborts the call.
C10_TerminatesIffAcyclic == []C10_Safety /\ [][C10_Progress]_vars

\* C10 witness: a call on a tree of decodable files with a reachable cycle,
\* aborted at the recursion limit after having met a missing import.
C10_Witness ==
    /\ ipc = "raised"
    /\ CycleReachable(fs)
    /\ TreeDecodable(fs)
    /\ ilog.missing
    /\ ilog.depth = RecursionLimit

\* ------------------------------------------------------------------------
\* Scoped in-place rewrite (tools.replace_file_inline)
\* ------------------------------------------------------------------------

\* entering the scope: source_f reads the original, dest_f is a new
\* temporary file
Enter ==
    /\ src_i' = 1
    /\ out' = <<>>
    /\ pc' = "loop"

\* leaving the scope without an error: the temporary file replaces the
\* original
Commit ==
    /\ doc' = out
    /\ doc1' = IF calls = 0 THEN out ELSE doc1
    /\ calls' = calls + 1
    /\ pc' = "done"

\* ------------------------------------------------------------------------
\* The token substituter
\* ------------------------------------------------------------------------

\* most lines of a document handed to replace_variables
MaxSubstLines == 2

NoDevice == "None"

\* first index j >= i of s that holds a character of C, Len(s) + 1 if none
RECURSIVE FirstOf(_, _, _)
FirstOf(s, C, i) ==
    IF i > Len(s) THEN Len(s) + 1
    ELSE IF s[i] \in C THEN i ELSE FirstOf(s, C, i + 1)

\* regexp.findall(line) for a pattern o o ([^oc]*) c c: the names of the
\* leftmost non-overlapping matches, in order
RECURSIVE FindallFrom(_, _, _, _)
FindallFrom(line, o, c, i) ==
    IF i > Len(line) THEN <<>>
    ELSE IF OccursAt(line, <<o, o>>, i)
         THEN LET j == FirstOf(line, {o, c}, i + 2)
              IN  IF OccursAt(line, <<c, c>>, j)
                  THEN <<SubSeq(line, i + 2, j - 1)>> \o FindallFrom(line, o, c, j + 2)
                  ELSE FindallFrom(line, o, c, i + 1)
         ELSE FindallFrom(line, o, c, i + 1)

\* required_variable_re.findall(line)
required_variable_re(line) == FindallFrom(line, "[", "]", 1)

\* optional_variable_re.findall(line)
optional_variable_re(line) == FindallFrom(line, "<", ">", 1)

\* str.replace(old, new) for a non-empty old: every non-overlapping
\* occurrence, left to right
RECURSIVE StrReplaceFrom(_, _, _, _)
StrReplaceFrom(s, old, new, i) ==
    IF i > Len(s) THEN <<>>
    ELSE IF OccursAt(s, old, i)
         THEN new \o StrReplaceFrom(s, old, new, i + Len(old))
         ELSE <<s[i]>> \o StrReplaceFrom(s, old, new, i + 1)

StrReplace(s, old, new) == StrReplaceFrom(s, old, new, 1)

\* replace_pattern.format(keyword) for "<<{}>>" and "[[{}]]"
Pattern(o, c, keyword) == <<o, o>> \o keyword \o <<c, c>>

\* the loop of _replace_from_map over the keywords found
RECURSIVE ReplaceKeywords(_, _, _, _, _, _)
ReplaceKeywords(line, keywords, o, c, device_vars, unfound) ==
    IF keywords = <<>> THEN [line |-> line, unfound |-> unfound]
    ELSE LET keyword == Head(keywords)
             found == keyword \in DOMAIN device_vars
             replace_with == IF found THEN device_vars[keyword] ELSE <<>>
         IN  ReplaceKeywords(StrReplace(line, Pattern(o, c, keyword), replace_with),
                             Tail(keywords), o, c, device_vars,
                             IF found THEN unfound ELSE Append(unfound, keyword))

\* _replace_from_map(line, regexp, replace_pattern, device_vars)
replace_from_map(line, o, c, device_vars) ==
    ReplaceKeywords(line, FindallFrom(line, o, c, 1), o, c, device_vars, <<>>)

\* _replace_line_content(line, filename, device_name, device_vars)
replace_line_content(line, device_name, device_vars) ==
    LET optional == replace_from_map(line, "<", ">", device_vars)
        required == replace_from_map(optional.line, "[", "]", device_vars)
    IN  [line |-> required.line, success |-> required.unfound = <<>>]

\* the texts the documents and the values of the model are made of
Str1(a) == <<a>>
Req(n) == <<"[", "[">> \o n \o <<"]", "]">>
Opt(n) == <<"<", "<">> \o n \o <<">", ">">>
NameA == Str1("a")
NameB == Str1("b")
NL == Str1("\n")

SubstLines ==
    { Str1("x") \o NL,
      Req(NameA) \o NL,
      Opt(NameA) \o NL,
      Req(NameA) \o Str1("x") \o Req(NameB) \o NL,
      Req(NameB) \o Req(NameB) \o NL,
      Opt(NameA) \o Str1(" ") \o Opt(NameA) \o NL,
      Opt(NameB) \o Req(NameA) \o NL,
      Str1("[") \o Opt(NameA) \o Str1("[") \o NameB \o <<"]", "]">> \o NL,
      Req(NameA \o Opt(NameB)) \o NL,
      Opt(NameA \o Opt(NameB)) \o NL }

SubstValues == { <<>>, Str1("v"), Req(NameB), Opt(NameB) }

\* the variable maps: each of the names a, b unmapped or mapped to a value
VariableMaps ==
    UNION { [D -> SubstValues] : D \in SUBSET {NameA, NameB} }

InitSubst ==
    /\ \E n \in 1..MaxSubstLines : \E d \in [1..n -> SubstLines] : doc = d /\ doc0 = d
    /\ \E name \in {NoDevice, "dev"}, m \in VariableMaps :
          env = [device_name |-> name, device_vars |-> m]
    /\ doc1 = <<>> /\ src_i = 0 /\ out = <<>> /\ ok = TRUE
    /\ pc = "ready" /\ calls = 0 /\ line_count = 0
    /\ fs = <<>> /\ dest = <<>> /\ stack = <<>> /\ ipc = "idle" /\ iret = TRUE
    /\ ilog = <<>>

\* lines 134-135
RV_Enter ==
    /\ pc = "ready"
    /\ calls = 0
    /\ Enter
    /\ ok' = TRUE
    /\ UNCHANGED <<doc, doc0, doc1, env, calls, line_count, importVars>>

\* lines 136-139
RV_Line ==
    /\ pc = "loop"
    /\ src_i <= Len(doc)
    /\ LET r == replace_line_content(doc[src_i], env.device_name, env.device_vars)
       IN  /\ ok' = (r.success /\ ok)
           /\ out' = Append(out, r.line)
    /\ src_i' = src_i + 1
    /\ UNCHANGED <<doc, doc0, doc1, env, pc, calls, line_count, importVars>>

\* lines 135, 141
RV_Return ==
    /\ pc = "loop"
    /\ src_i > Len(doc)
    /\ Commit
    /\ UNCHANGED <<doc0, env, src_i, out, ok, line_count, importVars>>

NextSubst == RV_Enter \/ RV_Line \/ RV_Return

SpecSubst == InitSubst /\ [][NextSubst]_vars

\* ------------------------------------------------------------------------
\* Claims about the token substituter
\* ------------------------------------------------------------------------

\* the line with every match of o o NAME c c replaced, in one pass from left
\* to right, by the value of NAME (nothing when NAME has no value); text
\* put in is not looked at again
RECURSIVE ReplacedOnce(_, _, _, _, _)
ReplacedOnce(line, o, c, values, i) ==
    IF i > Len(line) THEN <<>>
    ELSE LET j == FirstOf(line, {o, c}, i + 2)
         IN  IF OccursAt(line, <<o, o>>, i) /\ OccursAt(line, <<c, c>>, j)
             THEN LET name == SubSeq(line, i + 2, j - 1)
                  IN  (IF name \in DOMAIN values THEN values[name] ELSE <<>>)
                          \o ReplacedOnce(line, o, c, values, j + 2)
             ELSE <<line[i]>> \o ReplacedOnce(line, o, c, values, i + 1)

\* a delimiter of a value, marked as text that was put in
Shield(ch) ==
    CASE ch = "[" -> "put:[" [] ch = "]" -> "put:]"
      [] ch = "<" -> "put:<" [] ch = ">" -> "put:>"
      [] OTHER -> ch
Unshield(ch) ==
    CASE ch = "put:[" -> "[" [] ch = "put:]" -> "]"
      [] ch = "put:<" -> "<" [] ch = "put:>" -> ">"
      [] OTHER -> ch
Shielded(values) ==
    [n \in DOMAIN values |-> [k \in 1..Len(values[n]) |-> Shield(values[n][k])]]

\* optional placeholders of the line replaced, then required ones, text put
\* in never taken for a placeholder
ReplacedLiterally(line, values) ==
    LET one == ReplacedOnce(line, "<", ">", Shielded(values), 1)
        two == ReplacedOnce(one, "[", "]", Shielded(values), 1)
    IN  [k \in 1..Len(two) |-> Unshield(two[k])]

\* some line of the document holds a required placeholder without a value
RequiredMissing(d, values) ==
    \E i \in 1..Len(d) : \E k \in 1..Len(required_variable_re(d[i])) :
        required_variable_re(d[i])[k] \notin DOMAIN values

Holds(line, ch) == \E k \in 1..Len(line) : line[k] = ch

\* C3: every required placeholder [[NAME]] of the input is replaced by the
\* value of NAME, or by nothing when NAME has no value, and then the call
\* returns false whatever the other lines do.
C3_RequiredPlaceholders ==
    pc = "done" =>
        /\ RequiredMissing(doc0, env.device_vars) => ok = FALSE
        /\ \A i \in 1..Len(doc0) :
              optional_variable_re(doc0[i]) = <<>>
                  => doc[i] = ReplacedOnce(doc0[i], "[", "]", env.device_vars, 1)

\* C4: an optional placeholder <<NAME>> without a value is replaced by
\* nothing and never makes the call fail: a document with no required
\* placeholder lacking a value yields true.
C4_OptionalNeverFails ==
    pc = "done" =>
        /\ ~RequiredMissing(doc0, env.device_vars) => ok = TRUE
        /\ \A i \in 1..Len(doc0) :
              (/\ ~Holds(doc0[i], "[")
               /\ \A k \in 1..Len(optional_variable_re(doc0[i])) :
                     optional_variable_re(doc0[i])[k] \notin DOMAIN env.device_vars)
                  => doc[i] = ReplacedOnce(doc0[i], "<", ">", env.device_vars, 1)

\* C5: replacement is literal and single-pass: every output line is the
\* input line with each original placeholder replaced by its value or by
\* nothing, optional ones first, text put in never scanned again.
C5_LiteralSinglePass ==
    pc = "done" =>
        \A i \in 1..Len(doc0) : doc[i] = ReplacedLiterally(doc0[i], env.device_vars)

\* C9: called without a device_name, replace_variables leaves the file as it
\* was and returns true.
C9_NoDeviceNoSubstitution ==
    (pc = "done" /\ env.device_name = NoDevice) => (doc = doc0 /\ ok = TRUE)

\* ------------------------------------------------------------------------
\* The link normalizer
\* ------------------------------------------------------------------------

\* most lines of a document handed to reformat_links
MaxLinkLines == 2

HTTP == <<"h", "t", "t", "p">>
WWW == <<"w", "w", "w">>
DotMd == <<".", "m", "d">>

\* relative_markdown_links.findall(line), "\(((?!http|www).[^\)]*\.md)\)":
\* at an opening parenthesis not followed by http or www, one character of
\* any kind, then characters other than ")" up to the first ")", the last
\* three of them being ".md"; matches do not overlap
RECURSIVE relative_markdown_links(_, _)
relative_markdown_links(line, i) ==
    IF i > Len(line) THEN <<>>
    ELSE LET j == FirstOf(line, {")"}, i + 2)
         IN  IF /\ line[i] = "("
                /\ i + 1 <= Len(line)
                /\ line[i + 1] # "\n"
                /\ ~OccursAt(line, HTTP, i + 1)
                /\ ~OccursAt(line, WWW, i + 1)
                /\ j <= Len(line)
                /\ j - 3 >= i + 2
                /\ OccursAt(line, DotMd, j - 3)
             THEN <<SubSeq(line, i + 1, j - 1)>> \o relative_markdown_links(line, j + 1)
             ELSE relative_markdown_links(line, i + 1)

\* lines 148-149: for each link found, line.replace(link, link[:-3])
RECURSIVE StripLinks(_, _)
StripLinks(line, links) ==
    IF links = <<>> THEN line
    ELSE StripLinks(StrReplace(line, Head(links),
                               SubSeq(Head(links), 1, Len(Head(links)) - 3)),
                    Tail(links))

Paren(t) == <<"(">> \o t \o <<")">>

\* the pieces the lines of the model are made of
LinkPieces ==
    { <<"[", "t", "]">> \o Paren(<<"a">> \o DotMd),
      Paren(<<"a">> \o DotMd \o DotMd),
      Paren(<<"a">> \o DotMd \o <<"b">> \o DotMd),
      Paren(HTTP \o <<":", "/", "/", "x", "/", "a">> \o DotMd),
      Paren(WWW \o <<".", "x", "/", "b">> \o DotMd),
      Paren(<<"b">>),
      <<"a">> \o DotMd,
      <<" ">> }

LinkLines ==
    {p \o NL : p \in LinkPieces} \cup {p \o q \o NL : p \in LinkPieces, q \in LinkPieces}

InitLinks ==
    /\ \E n \in 1..MaxLinkLines : \E d \in [1..n -> LinkLines] : doc = d /\ doc0 = d
    /\ env = <<>>
    /\ doc1 = <<>> /\ src_i = 0 /\ out = <<>> /\ ok = TRUE
    /\ pc = "ready" /\ calls = 0 /\ line_count = 0
    /\ fs = <<>> /\ dest = <<>> /\ stack = <<>> /\ ipc = "idle" /\ iret = TRUE
    /\ ilog = <<>>

\* line 146, of the first call or of a second call on the file the first left
RL_Enter ==
    /\ pc \in {"ready", "done"}
    /\ calls < 2
    /\ Enter
    /\ UNCHANGED <<doc, doc0, doc1, env, ok, calls, line_count, importVars>>

\* lines 147-150
RL_Line ==
    /\ pc = "loop"
    /\ src_i <= Len(doc)
    /\ out' = Append(out, StripLinks(doc[src_i], relative_markdown_links(doc[src_i], 1)))
    /\ src_i' = src_i + 1
    /\ UNCHANGED <<doc, doc0, doc1, env, ok, pc, calls, line_count, importVars>>

\* line 146, leaving the scope
RL_Return ==
    /\ pc = "loop"
    /\ src_i > Len(doc)
    /\ Commit
    /\ UNCHANGED <<doc0, env, src_i, out, ok, line_count, importVars>>

NextLinks == RL_Enter \/ RL_Line \/ RL_Return

SpecLinks == InitLinks /\ [][NextLinks]_vars

\* ------------------------------------------------------------------------
\* Claims about the link normalizer
\* ------------------------------------------------------------------------

\* the line with the ".md" removed from the end of each relative link
\* target, everything else as it was
RECURSIVE TargetsStripped(_, _)
TargetsStripped(line, i) ==
    IF i > Len(line) THEN <<>>
    ELSE LET j == FirstOf(line, {")"}, i + 2)
         IN  IF /\ line[i] = "("
                /\ i + 1 <= Len(line)
                /\ ~OccursAt(line, HTTP, i + 1)
                /\ ~OccursAt(line, WWW, i + 1)
                /\ j <= Len(line)
                /\ j - 3 >= i + 2
                /\ OccursAt(line, DotMd, j - 3)
             THEN SubSeq(line, i, j - 4) \o <<")">> \o TargetsStripped(line, j + 1)
             ELSE <<line[i]>> \o TargetsStripped(line, i + 1)

\* C6: reformat_links is idempotent: a second call leaves the file as the
\* first call left it.
C6_Idempotent ==
    (pc = "done" /\ calls = 2) => doc = doc1

\* C7: reformat_links only removes the trailing ".md" of relative link
\* targets: absolute targets (http, www) and all other text of a line are
\* the same in the output.
C7_OnlyRelativeTargetsChange ==
    (pc = "done" /\ calls = 1) =>
        \A i \in 1..Len(doc0) : doc[i] = TargetsStripped(doc0[i], 1)

\* ------------------------------------------------------------------------
\* The link prepender
\* ------------------------------------------------------------------------

\* most lines of a document handed to prepend_external_link
MaxPrependLines == 3

\* "> [{}]({})\n".format(message, url)
Annotation(message, url) ==
    <<">", " ", "[">> \o message \o <<"]", "(">> \o url \o <<")", "\n">>

PrependLines == { <<"T">> \o NL, <<"B">> \o NL, NL }
Messages == { <<"m">>, <<"s", "r", "c">> }
Urls == { HTTP \o <<":", "/", "/", "x">>, <<"u">> \o DotMd }

InitPrepend ==
    /\ \E n \in 0..MaxPrependLines : \E d \in [1..n -> PrependLines] :
          \E last \in {NL, <<>>} :
              LET e == IF n > 0 /\ last = <<>> /\ Len(d[n]) > 1
                       THEN [d EXCEPT ![n] = SubSeq(d[n], 1, Len(d[n]) - 1)]
                       ELSE d
              IN  doc = e /\ doc0 = e
    /\ \E m \in Messages, u \in Urls : env = [message |-> m, url |-> u]
    /\ doc1 = <<>> /\ src_i = 0 /\ out = <<>> /\ ok = TRUE
    /\ pc = "ready" /\ calls = 0 /\ line_count = 0
    /\ fs = <<>> /\ dest = <<>> /\ stack = <<>> /\ ipc = "idle" /\ iret = TRUE
    /\ ilog = <<>>

\* lines 156-157
PEL_Enter ==
    /\ pc = "ready"
    /\ calls = 0
    /\ Enter
    /\ line_count' = 1
    /\ UNCHANGED <<doc, doc0, doc1, env, ok, calls, importVars>>

\* lines 158-163
PEL_Line ==
    /\ pc = "loop"
    /\ src_i <= Len(doc)
    /\ out' = (IF line_count = 2
               THEN Append(out, Annotation(env.message, env.url))
               ELSE out) \o <<doc[src_i]>>
    /\ line_count' = line_count + 1
    /\ src_i' = src_i + 1
    /\ UNCHANGED <<doc, doc0, doc1, env, ok, pc, calls, importVars>>

\* line 156, leaving the scope
PEL_Return ==
    /\ pc = "loop"
    /\ src_i > Len(doc)
    /\ Commit
    /\ UNCHANGED <<doc0, env, src_i, out, ok, line_count, importVars>>

NextPrepend == PEL_Enter \/ PEL_Line \/ PEL_Return

SpecPrepend == InitPrepend /\ [][NextPrepend]_vars

\* ------------------------------------------------------------------------
\* Claims about the link prepender
\* ------------------------------------------------------------------------

\* C8: for a document of at least one line the output is the first line,
\* then the one annotation line "> [message](url)", then the remaining
\* lines: one line more than the input, the annotation second.
C8_AnnotationIsSecondLine ==
    (pc = "done" /\ Len(doc0) >= 1) =>
        /\ doc = <<doc0[1], Annotation(env.message, env.url)>> \o Tail(doc0)
        /\ Len(doc) = Len(doc0) + 1

====
